---------------------------- MODULE Spec2Model ----------------------------
(***************************************************************************)
(* Model of dashboard.py: the password gate (check_password), the load     *)
(* pipeline (load_data_from_gsheet: schema check, normalisation, left      *)
(* join) and one Streamlit script run (filters, summary metrics, weekly    *)
(* profit, group-by sums, slow-moving stock).                              *)
(*                                                                         *)
(* Representation.                                                         *)
(*  - A text cell is a sequence of one-character strings, so that          *)
(*    str.strip() is computed character by character; a missing cell (NaN) *)
(*    is the value NaN below.                                              *)
(*  - A raw numeric cell is <<"num", v>> (parseable), <<"text">>           *)
(*    (unparseable) or <<"nan">> (empty).  Numbers are fixed-point: v      *)
(*    counts units of 1/Scale, so that int() truncation is observable.     *)
(*  - A raw date cell is <<"date", d>>, <<"text">> or <<"nan">>; d is a    *)
(*    day number and day 0 is a Monday.                                    *)
(*  - Columns that no modelled computation reads (Qty Sold, prices,        *)
(*    Balance Stock) appear as column names only.                          *)
(***************************************************************************)
EXTENDS Integers, Sequences, FiniteSets, TLC

\* ------------------------------------------------------------- bounds
MaxSales == 2
MaxInv == 2

\* ---------------------------------------------------------- constants
Scale == 2
StaleDays == 90
DaysPerWeek == 7

\* ----------------------------------------------------------- strings
Whitespace == {" "}

NaN == <<"NaN">>

isna(c) == c = NaN

RECURSIVE lstrip(_)
lstrip(s) == IF s # <<>> /\ Head(s) \in Whitespace THEN lstrip(Tail(s)) ELSE s

RECURSIVE rstrip(_)
rstrip(s) ==
    IF s # <<>> /\ s[Len(s)] \in Whitespace
    THEN rstrip(SubSeq(s, 1, Len(s) - 1))
    ELSE s

\* Series.str.strip(): NaN stays NaN, a string loses its outer whitespace.
str_strip(c) == IF isna(c) THEN NaN ELSE lstrip(rstrip(c))

\* Series.fillna(v) on a text column.
fillna(c, v) == IF isna(c) THEN v ELSE c

\* pd.to_numeric(errors='coerce'): the number, or NaN for anything else.
to_numeric(c) == IF c[1] = "num" THEN c ELSE <<"nan">>

\* .fillna(0) on a numeric column, giving the plain number.
fillna0(c) == IF c[1] = "num" THEN c[2] ELSE 0

\* pd.to_datetime(errors='coerce'): the date, or NaT for anything else.
to_datetime(c) == IF c[1] = "date" THEN c ELSE <<"nan">>

\* int(x): truncation toward zero of a fixed-point number.
int(x) == IF x >= 0 THEN x \div Scale ELSE -((-x) \div Scale)

RECURSIVE SeqSum(_)
SeqSum(s) == IF s = <<>> THEN 0 ELSE Head(s) + SeqSum(Tail(s))

Column(df, f) == [i \in 1..Len(df) |-> df[i][f]]

Values(df, f) == {df[i][f] : i \in 1..Len(df)}

\* ------------------------------------------------------ load pipeline
REQUIRED_INVENTORY_COLS ==
    {"Item ID", "Category", "Product Name / Model", "Supplier Price (Ksh)",
     "Selling Price (Ksh)", "Balance Stock"}

REQUIRED_SALES_COLS ==
    {"Item ID / Product", "Qty Sold", "Date", "Profit", "Payment Method",
     "Installer/Referral"}

InventoryMissing == "Inventory sheet is missing required columns."

SalesMissing == "Sales sheet is missing required columns."

\* Mutant: any() for all(): a sheet passes with one required column present.
SchemaCheckAny(invCols, salesCols) ==
    IF REQUIRED_INVENTORY_COLS \cap invCols = {} THEN InventoryMissing
    ELSE IF REQUIRED_SALES_COLS \cap salesCols = {} THEN SalesMissing
    ELSE ""

\* The two schema checks, in the order the code makes them; "" = no raise.
SchemaCheck(invCols, salesCols) ==
    IF ~(REQUIRED_INVENTORY_COLS \subseteq invCols) THEN InventoryMissing
    ELSE IF ~(REQUIRED_SALES_COLS \subseteq salesCols) THEN SalesMissing
    ELSE ""

\* Column names of df_sales after the rename.
RenameSales(c) ==
    CASE c = "Item ID / Product" -> "Item ID"
      [] c = "Qty Sold" -> "Quantity Sold"
      [] c = "Date" -> "Sale Date"
      [] OTHER -> c

\* Column names of df_merged after the merge and the rename of 'Total Sale'.
MergedCols(invCols, salesCols) ==
    {IF c = "Total Sale" THEN "Revenue" ELSE c :
        c \in {RenameSales(x) : x \in salesCols} \cup invCols}

\* Normalised sales rows: dates and profit coerced, rows without a date or
\* an identifier dropped, identifier trimmed.
SalesKept(r) == to_datetime(r.date)[1] = "date" /\ ~isna(r.id)

NormSale(r) ==
    [id |-> str_strip(r.id), date |-> to_datetime(r.date)[2],
     profit |-> fillna0(to_numeric(r.profit)), total |-> r.total,
     pay |-> r.pay, inst |-> r.inst]

NormalizeSales(rows) ==
    LET kept == SelectSeq(rows, SalesKept)
    IN  [i \in 1..Len(kept) |-> NormSale(kept[i])]

InvKept(r) == ~isna(r.id)

NormInv(r) == [id |-> str_strip(r.id), cat |-> r.cat, name |-> r.name]

NormalizeInventory(rows) ==
    LET kept == SelectSeq(rows, InvKept)
    IN  [i \in 1..Len(kept) |-> NormInv(kept[i])]

\* One row of the left join: the sale with the inventory fields attached.
JoinRow(s, cat, name) ==
    [id |-> s.id, date |-> s.date, profit |-> s.profit, total |-> s.total,
     pay |-> s.pay, inst |-> s.inst, cat |-> cat, name |-> name]

Matches(s, inv) == SelectSeq(inv, LAMBDA r : r.id = s.id)

\* Mutant: how="inner" drops the sale that has no inventory row.
JoinOneInner(s, inv) ==
    LET m == Matches(s, inv)
    IN  [i \in 1..Len(m) |-> JoinRow(s, m[i].cat, m[i].name)]

JoinOne(s, inv) ==
    LET m == Matches(s, inv)
    IN  IF m = <<>> THEN <<JoinRow(s, NaN, NaN)>>
        ELSE [i \in 1..Len(m) |-> JoinRow(s, m[i].cat, m[i].name)]

\* pd.merge(df_sales, df_inventory, on="Item ID", how="left").
RECURSIVE merge(_, _)
merge(sales, inv) ==
    IF sales = <<>> THEN <<>>
    ELSE JoinOne(Head(sales), inv) \o merge(Tail(sales), inv)


Unknown == <<"U", "n", "k", "n", "o", "w", "n">>

\* Lines 66-71 on one merged row: Revenue coerced with default 0, Category
\* defaulted to 'Unknown' and trimmed, payment method and installer trimmed.
FinishRow(m) ==
    [id |-> m.id, date |-> m.date, profit |-> m.profit,
     Revenue |-> fillna0(to_numeric(m.total)),
     pay |-> str_strip(m.pay), inst |-> str_strip(m.inst),
     cat |-> str_strip(fillna(m.cat, Unknown)), name |-> m.name]

\* dtype read_csv gives a text column: object when the sheet has no row or
\* some cell holds text, float64 when every cell of a non-empty sheet is empty.
ObjectDtype(cells) == cells = <<>> \/ \E i \in 1..Len(cells) : ~isna(cells[i])

\* The .str accessor raises AttributeError on a column that is not object.
\* fillna('Unknown') turns a float64 Category into object once it fills a cell.
CategoryStrOk(src, merged) == ObjectDtype(Column(src.inventory, "cat")) \/ merged # <<>>

PaymentStrOk(src) == ObjectDtype(Column(src.sales, "pay"))

InstallerStrOk(src) == ObjectDtype(Column(src.sales, "inst"))

FetchError == "URLError"

RevenueKeyError == "KeyError: 'Revenue'"

StrAccessorError == "AttributeError: Can only use .str accessor with string values!"

Raised(msg) == [error |-> msg, inventory |-> <<>>, merged |-> <<>>, columns |-> {}]

\* load_data_from_gsheet: what it raises (error # "") or returns.
load_data_from_gsheet(src, fetchOk) ==
    LET inv == NormalizeInventory(src.inventory)
        joined == merge(NormalizeSales(src.sales), inv)
        cols == MergedCols(src.invCols, src.salesCols)
    IN  IF ~fetchOk THEN Raised(FetchError)
        ELSE IF SchemaCheck(src.invCols, src.salesCols) # ""
        THEN Raised(SchemaCheck(src.invCols, src.salesCols))
        ELSE IF "Revenue" \notin cols THEN Raised(RevenueKeyError)
        ELSE IF ~CategoryStrOk(src, joined) THEN Raised(StrAccessorError)
        ELSE IF ~PaymentStrOk(src) THEN Raised(StrAccessorError)
        ELSE IF ~InstallerStrOk(src) THEN Raised(StrAccessorError)
        ELSE [error |-> "", inventory |-> inv,
              merged |-> [i \in 1..Len(joined) |-> FinishRow(joined[i])],
              columns |-> cols]

\* ------------------------------------------------------ password gate
Secret == "pine"

Passwords == {"pine", "Pine", "pine ", ""}

\* Mutant: the comparison ignores letter case.
password_entered_caseless(ss) ==
    IF "password" \in DOMAIN ss /\ ss["password"] \in {Secret, "Pine"}
    THEN [k \in (DOMAIN ss \cup {"password_correct"}) \ {"password"} |->
            IF k = "password_correct" THEN TRUE ELSE ss[k]]
    ELSE [k \in DOMAIN ss \cup {"password_correct"} |->
            IF k = "password_correct" THEN FALSE ELSE ss[k]]

\* The on_change callback of the password box.
password_entered(ss) ==
    IF "password" \in DOMAIN ss /\ ss["password"] = Secret
    THEN [k \in (DOMAIN ss \cup {"password_correct"}) \ {"password"} |->
            IF k = "password_correct" THEN TRUE ELSE ss[k]]
    ELSE [k \in DOMAIN ss \cup {"password_correct"} |->
            IF k = "password_correct" THEN FALSE ELSE ss[k]]

\* check_password(): its return value and what it displays.
check_password(ss) ==
    IF "password_correct" \notin DOMAIN ss
    THEN [ret |-> FALSE, shown |-> {"password_input"}]
    ELSE IF ~ss["password_correct"]
    THEN [ret |-> FALSE, shown |-> {"password_input", "password_incorrect"}]
    ELSE [ret |-> TRUE, shown |-> {}]

\* ------------------------------------------------------------ filters
SetMin(S) == CHOOSE x \in S : \A y \in S : x <= y

SetMax(S) == CHOOSE x \in S : \A y \in S : x >= y

\* Line 89: the rows whose sale date lies in [start, end].
DateFilter(df, start, end) ==
    SelectSeq(df, LAMBDA r : r.date >= start /\ r.date <= end)

\* Lines 93 and 97: df[df[f].isin(allowed)]; isin matches NaN with NaN.
IsinFilter(df, f, allowed) == SelectSeq(df, LAMBDA r : r[f] \in allowed)

\* -------------------------------------------------------- aggregation
\* Mutant: the guard tests != 0 where the code tests > 0.
ProfitMarginNonZero(total_profit, total_revenue) ==
    IF total_revenue # 0
    THEN [num |-> total_profit * 100, den |-> total_revenue]
    ELSE [num |-> 0, den |-> 1]

\* Line 113.  The margin is the exact ratio num/den (den > 0).
ProfitMargin(total_profit, total_revenue) ==
    IF total_revenue > 0
    THEN [num |-> total_profit * 100, den |-> total_revenue]
    ELSE [num |-> 0, den |-> 1]

\* Mutant: bins labelled by the Monday that starts the week.
WeekLabelStart(d) == d - (d % DaysPerWeek)

\* 'W-Mon' bins end on a Monday and are labelled by it: the label of a day
\* is the first Monday on or after it.
WeekLabel(d) == d + ((DaysPerWeek - (d % DaysPerWeek)) % DaysPerWeek)

ProfitIn(df, label) ==
    SeqSum(Column(SelectSeq(df, LAMBDA r : WeekLabel(r.date) = label), "profit"))

\* Line 124: resample('W-Mon')['Profit'].sum() gives one bin for every week
\* from the first record's to the last record's, an empty bin summing to 0.
WeeklyProfit(df) ==
    LET lo == WeekLabel(SetMin(Values(df, "date")))
        hi == WeekLabel(SetMax(Values(df, "date")))
    IN  [k \in 1..((hi - lo) \div DaysPerWeek + 1) |->
            <<lo + DaysPerWeek * (k - 1), ProfitIn(df, lo + DaysPerWeek * (k - 1))>>]

\* groupby(f) keeps the rows whose key is not NaN (dropna=True).
GroupKeys(df, f) == {k \in Values(df, f) : ~isna(k)}

\* Lines 130 and 134: df.groupby(f)['Profit'].sum() as key -> sum.
GroupSum(df, f) ==
    [k \in GroupKeys(df, f) |->
        SeqSum(Column(SelectSeq(df, LAMBDA r : r[f] = k), "profit"))]

\* Line 130: the orders sort_values(ascending=True) may give the groups.
SortedByValue(g) ==
    {s \in [1..Cardinality(DOMAIN g) -> DOMAIN g] :
        /\ \A i, j \in DOMAIN s : i # j => s[i] # s[j]
        /\ \A i, j \in DOMAIN s : i < j => g[s[i]] <= g[s[j]]}

NeverSold == <<"Never Sold">>

\* Lines 169-174: 'Days Since Last Sale' of one inventory row.
DaysSinceLastSale(merged, id) ==
    LET own == SelectSeq(merged, LAMBDA r : r.id = id)
    IN  IF own = <<>> THEN NeverSold
        ELSE <<"num", SetMax(Values(merged, "date")) - SetMax(Values(own, "date"))>>

\* Mutant: >= for > at the staleness threshold.
IsSlowMovingInclusive(days) ==
    \/ (to_numeric(days)[1] = "num" /\ to_numeric(days)[2] >= StaleDays)
    \/ days = NeverSold

\* Lines 175-178: the selection of the slow-moving rows.
IsSlowMoving(days) ==
    \/ (to_numeric(days)[1] = "num" /\ to_numeric(days)[2] > StaleDays)
    \/ days = NeverSold

InventoryAnalysis(inv, merged) ==
    [i \in 1..Len(inv) |->
        [id |-> inv[i].id, name |-> inv[i].name,
         days |-> DaysSinceLastSale(merged, inv[i].id)]]

SlowMoving(inv, merged) ==
    SelectSeq(InventoryAnalysis(inv, merged), LAMBDA r : IsSlowMoving(r.days))

\* ---------------------------------------------------- the two sheets
\* The sheets the export endpoint serves, drawn from the families below: each
\* family varies the cells one part of the pipeline reads.
SeqsUpTo(S, n) == UNION {[1..k -> S] : k \in 0..n}

AllInvCols == REQUIRED_INVENTORY_COLS

AllSalesCols == REQUIRED_SALES_COLS \cup {"Total Sale", "Customer Name"}

Amp == <<"A", "m", "p">>

Sub == <<"S", "u", "b">>

Cash == <<"C", "a", "s", "h">>

Bob == <<"B", "o", "b">>

BaseSale ==
    [id |-> <<"A">>, date |-> <<"date", 0>>, profit |-> <<"num", 2>>,
     total |-> <<"num", 4>>, pay |-> Cash, inst |-> Bob]

InvA == [id |-> <<"A">>, cat |-> <<" ">> \o Amp, name |-> <<"P">>]

InvA2 == [id |-> <<"A", " ">>, cat |-> Sub, name |-> <<"Q">>]

InvC == [id |-> <<"C">>, cat |-> NaN, name |-> <<"R">>]

InvNoId == [id |-> NaN, cat |-> NaN, name |-> <<"S">>]

Sheets(invCols, salesCols, inventory, sales) ==
    [invCols |-> invCols, salesCols |-> salesCols,
     inventory |-> inventory, sales |-> sales]

\* Identifiers: untrimmed, orphaned, missing and repeated keys; bad dates.
IdSaleRows ==
    {BaseSale, [BaseSale EXCEPT !.id = <<" ", "A">>], [BaseSale EXCEPT !.id = <<"B">>],
     [BaseSale EXCEPT !.id = NaN], [BaseSale EXCEPT !.date = <<"text">>]}

IdInvRows == {InvA, InvA2, InvNoId}

IdSources ==
    {Sheets(AllInvCols, AllSalesCols, i, s) :
        i \in SeqsUpTo(IdInvRows, MaxInv), s \in SeqsUpTo(IdSaleRows, MaxSales)}

\* Columns: each sheet with all its columns or with one of them absent.
WithoutOne(cols) == {cols} \cup {cols \ {c} : c \in cols}

ColSources ==
    {Sheets(ic, sc, <<InvA>>,
            <<IF "Total Sale" \in sc THEN BaseSale
              ELSE [BaseSale EXCEPT !.total = <<"nan">>]>>) :
        ic \in WithoutOne(AllInvCols),
        sc \in WithoutOne(AllSalesCols) \cup {AllSalesCols \cup {"Notes"}}}

\* Dates: the same and adjacent weeks, a gap of weeks, 90 and 91 days.
SaleDays == {0, 1, 7, 91}

DateSaleRows ==
    {[BaseSale EXCEPT !.id = i, !.date = <<"date", d>>] :
        i \in {<<"A">>, <<"B">>}, d \in SaleDays}

DateSources ==
    {Sheets(AllInvCols, AllSalesCols, <<InvA, InvC>>, s) :
        s \in SeqsUpTo(DateSaleRows, MaxSales)}

\* Numbers: fractional, negative, zero, unparseable and empty cells.
NumSaleRows ==
    {[BaseSale EXCEPT !.profit = p, !.total = r] :
        p \in {<<"num", 3>>, <<"num", -2>>, <<"text">>},
        r \in {<<"num", 4>>, <<"num", -4>>, <<"num", 1>>, <<"nan">>}}

NumSources ==
    {Sheets(AllInvCols, AllSalesCols, <<InvA>>, s) :
        s \in SeqsUpTo(NumSaleRows, MaxSales)}

\* Text: untrimmed, blank and empty payment-method and installer cells.
TextSaleRows ==
    {[BaseSale EXCEPT !.pay = p, !.inst = i] :
        p \in {Cash, Cash \o <<" ">>, <<" ">>, NaN}, i \in {Bob, NaN}}

TextSources ==
    {Sheets(AllInvCols, AllSalesCols, <<InvA>>, s) :
        s \in SeqsUpTo(TextSaleRows, MaxSales)}

Sources == IdSources \cup ColSources \cup DateSources \cup NumSources \cup TextSources

\* ------------------------------------------------------------- state
VARIABLES
    source,             \* the two sheets behind the export URLs
    cache,              \* st.cache_data: the memoised return value
    session_state,      \* st.session_state
    entered,            \* the text last typed in the password box
    pc,                 \* position of the script run
    ran,                \* steps this run has executed
    shown,              \* elements this run has displayed
    load_error,         \* the exception caught at line 79 ("" = none)
    df_inventory, df_sales_merged, columns,
    start_date, end_date, category, product_name, df_filtered,
    total_revenue, total_profit, avg_profit_margin,
    weekly_profit, profit_by_installer, profit_by_payment,
    slow_moving

sessionVars == <<source, cache, session_state, entered>>

loadVars == <<load_error, df_inventory, df_sales_merged, columns>>

filterVars == <<start_date, end_date, category, product_name, df_filtered>>

tabVars ==
    <<total_revenue, total_profit, avg_profit_margin, weekly_profit,
      profit_by_installer, profit_by_payment, slow_moving>>

vars == <<sessionVars, pc, ran, shown, loadVars, filterVars, tabVars>>

Finished == {"done", "stopped", "crashed"}

\* A mapping with no key: a new session's state, an empty Series.
EmptyState == [k \in {} |-> TRUE]

NoCache == [hit |-> FALSE, value |-> Raised("")]

\* The script's variables before a run has assigned them.
FreshRun ==
    /\ pc = "start"
    /\ ran = {}
    /\ shown = {}
    /\ load_error = ""
    /\ df_inventory = <<>>
    /\ df_sales_merged = <<>>
    /\ columns = {}
    /\ start_date = 0
    /\ end_date = 0
    /\ category = {}
    /\ product_name = {}
    /\ df_filtered = <<>>
    /\ total_revenue = 0
    /\ total_profit = 0
    /\ avg_profit_margin = [num |-> 0, den |-> 1]
    /\ weekly_profit = <<>>
    /\ profit_by_installer = <<>>
    /\ profit_by_payment = EmptyState
    /\ slow_moving = <<>>

\* A rerun starts the script from its first line.
StartRun ==
    /\ pc' = "start"
    /\ ran' = {}
    /\ shown' = {}
    /\ load_error' = ""
    /\ df_inventory' = <<>>
    /\ df_sales_merged' = <<>>
    /\ columns' = {}
    /\ start_date' = 0
    /\ end_date' = 0
    /\ category' = {}
    /\ product_name' = {}
    /\ df_filtered' = <<>>
    /\ total_revenue' = 0
    /\ total_profit' = 0
    /\ avg_profit_margin' = [num |-> 0, den |-> 1]
    /\ weekly_profit' = <<>>
    /\ profit_by_installer' = <<>>
    /\ profit_by_payment' = EmptyState
    /\ slow_moving' = <<>>

Init ==
    /\ source \in Sources
    /\ cache = NoCache
    /\ session_state = EmptyState
    /\ entered = ""
    /\ FreshRun

\* ------------------------------------------------------------ actions
\* The user types p in the password box: Streamlit stores it under the
\* widget's key, runs the on_change callback and reruns the script.
Submit ==
    /\ pc \in Finished
    /\ "password_input" \in shown
    /\ \E p \in Passwords :
        /\ entered' = p
        /\ session_state' =
            password_entered([k \in DOMAIN session_state \cup {"password"} |->
                                IF k = "password" THEN p ELSE session_state[k]])
    /\ StartRun
    /\ UNCHANGED <<source, cache>>

\* Any other interaction reruns the script in the same session.
Rerun ==
    /\ pc \in Finished
    /\ StartRun
    /\ UNCHANGED sessionVars

\* Line 76: if check_password().
Gate ==
    /\ pc = "start"
    /\ shown' = shown \cup check_password(session_state).shown
    /\ pc' = IF check_password(session_state).ret THEN "load" ELSE "done"
    /\ UNCHANGED <<sessionVars, ran, loadVars, filterVars, tabVars>>

\* Mutant: the except branch shows the error and does not stop.
AfterLoadNoStop(r) == "filter"

\* Lines 79-81: where the run goes after the load; st.stop() on an exception.
AfterLoad(r) == IF r.error # "" THEN "stopped" ELSE "filter"

\* Lines 77-81: the cached load inside try/except.
Load ==
    /\ pc = "load"
    /\ \E fetchOk \in BOOLEAN :
        LET r == IF cache.hit THEN cache.value
                 ELSE load_data_from_gsheet(source, fetchOk)
        IN  IF r.error # ""
            THEN /\ load_error' = r.error
                 /\ shown' = shown \cup {"load_error"}
                 /\ pc' = AfterLoad(r)
                 /\ UNCHANGED <<cache, df_inventory, df_sales_merged, columns>>
            ELSE /\ df_inventory' = r.inventory
                 /\ df_sales_merged' = r.merged
                 /\ columns' = r.columns
                 /\ cache' = [hit |-> TRUE, value |-> r]
                 /\ pc' = AfterLoad(r)
                 /\ UNCHANGED <<load_error, shown>>
    /\ ran' = ran \cup {"load"}
    /\ UNCHANGED <<source, session_state, entered, filterVars, tabVars>>

\* The dates the date box offers: between the first and the last sale date.
DateChoices(df) ==
    LET days == Values(df, "date")
    IN  days \cup {d \in {SetMin(days) + 1} : d <= SetMax(days)}

\* Mutant: the warning is shown and the run is not stopped.
AfterFilterNoStop(df) == "render"

\* Lines 99-101: st.stop() when the filtered set is empty.
AfterFilter(df) == IF df = <<>> THEN "stopped" ELSE "render"

\* Lines 84-101: the three sidebar filters and the empty-result stop.
Filter ==
    /\ pc = "filter"
    /\ ran' = ran \cup {"filter"}
    /\ IF df_sales_merged = <<>>
       THEN \* min() of no date is NaT: the date box faults, or the filter
            \* runs on no row.
            /\ \/ /\ pc' = "crashed"
                  /\ shown' = shown \cup {"exception"}
               \/ /\ pc' = AfterFilter(df_filtered)
                  /\ shown' = shown \cup {"filters", "empty_warning"}
            /\ UNCHANGED filterVars
       ELSE \E start, end \in DateChoices(df_sales_merged) :
              /\ start <= end
              /\ LET df_date_filtered == DateFilter(df_sales_merged, start, end)
                 IN  \E cats \in SUBSET Values(df_date_filtered, "cat") :
                       LET df_cat_filtered == IsinFilter(df_date_filtered, "cat", cats)
                       IN  \E names \in SUBSET Values(df_cat_filtered, "name") :
                             /\ start_date' = start
                             /\ end_date' = end
                             /\ category' = cats
                             /\ product_name' = names
                             /\ df_filtered' = IsinFilter(df_cat_filtered, "name", names)
              /\ shown' = shown \cup (IF df_filtered' = <<>>
                                        THEN {"filters", "empty_warning"}
                                        ELSE {"filters"})
              /\ pc' = AfterFilter(df_filtered')
    /\ UNCHANGED <<sessionVars, loadVars, tabVars>>

\* Lines 103-179: the three tabs.  Tab 2 groups by 'Customer Name', which
\* raises KeyError when the sales sheet has no such column.
Render ==
    /\ pc = "render"
    /\ ran' = ran \cup {"aggregate"}
    /\ total_revenue' = int(SeqSum(Column(df_filtered, "Revenue")))
    /\ total_profit' = int(SeqSum(Column(df_filtered, "profit")))
    /\ avg_profit_margin' = ProfitMargin(total_profit', total_revenue')
    /\ weekly_profit' = WeeklyProfit(df_filtered)
    /\ \E order \in SortedByValue(GroupSum(df_filtered, "inst")) :
         profit_by_installer' =
            [i \in DOMAIN order |-> <<order[i], GroupSum(df_filtered, "inst")[order[i]]>>]
    /\ profit_by_payment' = GroupSum(df_filtered, "pay")
    /\ IF "Customer Name" \in columns
       THEN /\ slow_moving' = SlowMoving(df_inventory, df_sales_merged)
            /\ shown' = shown \cup {"tab1", "tab2", "tab3"}
            /\ pc' = "done"
       ELSE /\ shown' = shown \cup {"tab1", "exception"}
            /\ pc' = "crashed"
            /\ UNCHANGED slow_moving
    /\ UNCHANGED <<sessionVars, loadVars, filterVars>>

Next == Submit \/ Rerun \/ Gate \/ Load \/ Filter \/ Render

Spec == Init /\ [][Next]_vars

\* ------------------------------------------------------------- claims
LoadRan == "load" \in ran

Loaded == LoadRan /\ load_error = ""

Aggregated == "aggregate" \in ran

Count(seq, P(_)) == Cardinality({i \in 1..Len(seq) : P(seq[i])})

ValidSale(r) == r.date[1] = "date" /\ r.id # NaN

ValidSales == {i \in 1..Len(source.sales) : ValidSale(source.sales[i])}

\* The inventory rows a sale row joins: same identifier once both are trimmed.
Partners(s) ==
    {j \in 1..Len(source.inventory) :
        /\ source.inventory[j].id # NaN
        /\ str_strip(source.inventory[j].id) = str_strip(s.id)}

Copies(i) ==
    IF Partners(source.sales[i]) = {} THEN 1
    ELSE Cardinality(Partners(source.sales[i]))

RECURSIVE TotalCopies(_)
TotalCopies(S) ==
    IF S = {} THEN 0
    ELSE LET i == CHOOSE j \in S : TRUE IN Copies(i) + TotalCopies(S \ {i})

UniqueInventoryIds ==
    \A i \in ValidSales : Cardinality(Partners(source.sales[i])) <= 1

\* C1 (as stated): whenever the load succeeds, the merged dataset has exactly
\* as many rows as there are sales rows with a valid date and an identifier.
C1_RowCountEqualsValidSales ==
    Loaded => Len(df_sales_merged) = Cardinality(ValidSales)

\* C1 (amended): whenever the load succeeds, every sales row with a valid date
\* and an identifier appears in the merged dataset once per inventory row of
\* the same trimmed identifier, and once when there is none; so no sale row is
\* dropped, and the row counts are equal when no two inventory rows share a
\* trimmed identifier.
C1_RowCountIsFanOut ==
    Loaded =>
        /\ Len(df_sales_merged) = TotalCopies(ValidSales)
        /\ Len(df_sales_merged) >= Cardinality(ValidSales)
        /\ UniqueInventoryIds => Len(df_sales_merged) = Cardinality(ValidSales)

\* C1 witness: a load that joined two valid sales, one untrimmed and matched,
\* against inventory with distinct identifiers.
C1_Witness ==
    /\ Loaded
    /\ UniqueInventoryIds
    /\ Cardinality(ValidSales) = 2
    /\ Len(df_inventory) >= 1
    /\ \E i \in ValidSales :
        /\ source.sales[i].id # str_strip(source.sales[i].id)
        /\ Partners(source.sales[i]) # {}

InventoryIncomplete == \E c \in REQUIRED_INVENTORY_COLS : c \notin source.invCols

SalesIncomplete == \E c \in REQUIRED_SALES_COLS : c \notin source.salesCols

NothingLoaded ==
    /\ df_inventory = <<>>
    /\ df_sales_merged = <<>>
    /\ ~cache.hit
    /\ pc = "stopped"

\* C2: when the sheets were fetched, a missing required column makes the load
\* raise an error naming a sheet that lacks one and nothing is returned; with
\* every required column present neither schema error is raised.
C2_SchemaErrorNamesSource ==
    (LoadRan /\ load_error # FetchError) =>
        /\ (InventoryIncomplete \/ SalesIncomplete) =>
              /\ load_error \in {InventoryMissing, SalesMissing}
              /\ NothingLoaded
        /\ load_error = InventoryMissing => InventoryIncomplete
        /\ load_error = SalesMissing => SalesIncomplete
        /\ InventoryIncomplete => load_error = InventoryMissing

\* C2 witness: a load that stopped on a sales sheet lacking a column.
C2_Witness ==
    /\ LoadRan
    /\ load_error = SalesMissing
    /\ SalesIncomplete
    /\ ~InventoryIncomplete

\* C3 (as stated): when the sheets were fetched and pass the schema check, the
\* load raises nothing, and a merged row's revenue is 0 when the sales sheet
\* has no revenue column or the cell does not parse.
C3_NormaliseNeverRaises ==
    (LoadRan /\ load_error # FetchError /\ ~InventoryIncomplete /\ ~SalesIncomplete) =>
        /\ load_error = ""
        /\ \A i \in 1..Len(df_sales_merged) :
              "Total Sale" \notin source.salesCols => df_sales_merged[i].Revenue = 0

\* C4: a load that raised shows the load error and stops the run before the
\* filter step with no dataset assigned; the filter and the tabs run only
\* after the load returned the complete pair.
C4_FailClosed ==
    /\ load_error # "" =>
          /\ pc = "stopped"
          /\ "load_error" \in shown
          /\ ran = {"load"}
          /\ df_inventory = <<>> /\ df_sales_merged = <<>>
          /\ shown \cap {"filters", "tab1", "tab2", "tab3"} = {}
    /\ (pc \in {"filter", "render"} \/ ran \cap {"filter", "aggregate"} # {}) =>
          /\ Loaded
          /\ "load_error" \notin shown
          /\ load_data_from_gsheet(source, TRUE).error = ""
          /\ df_inventory = load_data_from_gsheet(source, TRUE).inventory
          /\ df_sales_merged = load_data_from_gsheet(source, TRUE).merged

\* C4 witness: a run stopped by a failed fetch.
C4_Witness == load_error = FetchError /\ pc = "stopped" /\ "load_error" \in shown

Selected(r) ==
    /\ r.date >= start_date /\ r.date <= end_date
    /\ r.cat \in category
    /\ r.name \in product_name

\* C5: once the three filters are chosen the filtered set is the conjunction
\* of the three predicates; an empty one shows the warning and stops the run
\* before any tab, a non-empty one shows no warning and goes on to the tabs.
C5_EmptyResultStops ==
    /\ ("filters" \in shown /\ df_sales_merged # <<>>) =>
          df_filtered = SelectSeq(df_sales_merged, Selected)
    /\ ("filters" \in shown /\ df_filtered = <<>>) =>
          /\ "empty_warning" \in shown
          /\ pc = "stopped"
          /\ ~Aggregated
          /\ shown \cap {"tab1", "tab2", "tab3"} = {}
    /\ ("filters" \in shown /\ df_filtered # <<>>) =>
          /\ "empty_warning" \notin shown
          /\ pc \in {"render", "done", "crashed"}
    /\ Aggregated => df_filtered # <<>>

\* C5 witness: filters chosen over a non-empty dataset selected nothing.
C5_Witness ==
    /\ "empty_warning" \in shown
    /\ df_sales_merged # <<>>
    /\ category # {}
    /\ df_filtered = <<>>

SumProfit == SeqSum(Column(df_filtered, "profit"))

SumRevenue == SeqSum(Column(df_filtered, "Revenue"))

\* The whole number of units in the fixed-point amount x, toward zero.
WholePart(x) ==
    IF x >= 0 THEN CHOOSE n \in 0..x : n * Scale <= x /\ x < (n + 1) * Scale
    ELSE -(CHOOSE n \in 0..(-x) : n * Scale <= -x /\ -x < (n + 1) * Scale)

\* C6 (as stated): the margin is sum(profit) / sum(revenue) * 100, and 0 when
\* the sum of revenue is 0.
C6_MarginOfSums ==
    Aggregated =>
        /\ avg_profit_margin.den # 0
        /\ SumRevenue = 0 => avg_profit_margin.num = 0
        /\ SumRevenue # 0 =>
              avg_profit_margin.num * SumRevenue = 100 * SumProfit * avg_profit_margin.den

\* C6 (amended): total profit and total revenue are the sums truncated toward
\* zero to whole numbers; the margin is total profit / total revenue * 100
\* when total revenue is positive and exactly 0 when it is zero or negative;
\* the denominator is never 0.
C6_MarginOfTruncatedTotals ==
    Aggregated =>
        /\ total_profit = WholePart(SumProfit)
        /\ total_revenue = WholePart(SumRevenue)
        /\ avg_profit_margin.den # 0
        /\ total_revenue > 0 =>
              avg_profit_margin.num * total_revenue
                  = 100 * total_profit * avg_profit_margin.den
        /\ total_revenue <= 0 => avg_profit_margin.num = 0

\* C6 witness: metrics computed with positive revenue and non-zero profit.
C6_Witness ==
    /\ Aggregated
    /\ total_revenue > 0
    /\ total_profit # 0
    /\ avg_profit_margin.num # 0

AllSaleDates == {df_sales_merged[k].date : k \in 1..Len(df_sales_merged)}

OwnSaleDates(id) ==
    {df_sales_merged[k].date : k \in {n \in 1..Len(df_sales_merged) : df_sales_merged[n].id = id}}

DaysStale(id) == SetMax(AllSaleDates) - SetMax(OwnSaleDates(id))

Listed(row, days) ==
    \E j \in 1..Len(slow_moving) :
        /\ slow_moving[j].id = row.id
        /\ slow_moving[j].name = row.name
        /\ slow_moving[j].days = days

\* C7: when the inventory tab is shown, an inventory row is listed as
\* slow-moving exactly when its identifier has no sale in the unfiltered merged
\* dataset ("Never Sold") or its latest sale lies more than 90 days before the
\* latest sale of that dataset: listed at 91 days, not listed at 90.
C7_StalenessBoundary ==
    "tab3" \in shown =>
        \A i \in 1..Len(df_inventory) :
            LET row == df_inventory[i] IN
            IF OwnSaleDates(row.id) = {}
            THEN Listed(row, <<"Never Sold">>)
            ELSE /\ DaysStale(row.id) > 90 => Listed(row, <<"num", DaysStale(row.id)>>)
                 /\ DaysStale(row.id) <= 90 =>
                       ~\E j \in 1..Len(slow_moving) : slow_moving[j].id = row.id
                 /\ DaysStale(row.id) = 91 => Listed(row, <<"num", 91>>)

\* C7 witness: under a filter that hides part of the dataset, one item is
\* listed at exactly 91 days.
C7_Witness ==
    /\ "tab3" \in shown
    /\ Len(df_filtered) < Len(df_sales_merged)
    /\ \E j \in 1..Len(slow_moving) : slow_moving[j].days = <<"num", 91>>

\* C7 witness of the other side of the boundary: an item sold 90 days before
\* the latest sale is in the inventory and is not listed.
C7_NotListedAt90 ==
    /\ "tab3" \in shown
    /\ \E i \in 1..Len(df_inventory) :
        /\ OwnSaleDates(df_inventory[i].id) # {}
        /\ DaysStale(df_inventory[i].id) = 90
        /\ ~\E j \in 1..Len(slow_moving) : slow_moving[j].id = df_inventory[i].id

FilteredDates == {df_filtered[k].date : k \in 1..Len(df_filtered)}

RECURSIVE ProfitWhere(_, _)
ProfitWhere(df, days) ==
    IF df = <<>> THEN 0
    ELSE (IF Head(df).date \in days THEN Head(df).profit ELSE 0)
            + ProfitWhere(Tail(df), days)

Ascending(w) == \A i, j \in 1..Len(w) : i < j => w[i][1] < w[j][1]

\* Monday on or before d: the start of d's Monday-to-Sunday week.
WeekStart(d) == d - (d % 7)

\* Monday on or after d: the end of d's Tuesday-to-Monday week.
WeekEnd(d) == CHOOSE m \in d..(d + 6) : m % 7 = 0

\* C8 (as stated): the weekly trend has one bucket per Monday-to-Sunday week
\* that holds a record, keyed by the week's start, summing the week's profit,
\* in ascending order; weeks without a record have no bucket.
C8_WeekStartBucketsOmitEmpty ==
    Aggregated =>
        /\ Ascending(weekly_profit)
        /\ {weekly_profit[i][1] : i \in 1..Len(weekly_profit)}
              = {WeekStart(d) : d \in FilteredDates}
        /\ \A i \in 1..Len(weekly_profit) :
              weekly_profit[i][2]
                  = ProfitWhere(df_filtered, {d \in FilteredDates :
                                                WeekStart(d) = weekly_profit[i][1]})

\* C8 (amended): the weekly trend has one bucket for every Tuesday-to-Monday
\* week from the week of the earliest record to the week of the latest, keyed
\* by the Monday that ends the week, in ascending order; a bucket holds the sum
\* of the profit of the records of its week, which is 0 for a week without a
\* record (weeks are zero-filled, not omitted).
C8_WeekEndBucketsZeroFilled ==
    Aggregated =>
        /\ Ascending(weekly_profit)
        /\ Len(weekly_profit) >= 1
        /\ weekly_profit[1][1] = WeekEnd(SetMin(FilteredDates))
        /\ weekly_profit[Len(weekly_profit)][1] = WeekEnd(SetMax(FilteredDates))
        /\ \A i \in 1..(Len(weekly_profit) - 1) :
              weekly_profit[i + 1][1] = weekly_profit[i][1] + 7
        /\ \A i \in 1..Len(weekly_profit) :
              weekly_profit[i][2]
                  = ProfitWhere(df_filtered, {d \in FilteredDates :
                                                /\ d > weekly_profit[i][1] - 7
                                                /\ d <= weekly_profit[i][1]})

\* C8 witness: a trend with a zero-filled week between two weeks with sales.
C8_Witness ==
    /\ Aggregated
    /\ \E i \in 2..(Len(weekly_profit) - 1) :
        /\ weekly_profit[i][2] = 0
        /\ ~\E d \in FilteredDates : WeekEnd(d) = weekly_profit[i][1]
    /\ weekly_profit[1][2] # 0

RECURSIVE MappingTotal(_)
MappingTotal(g) ==
    IF DOMAIN g = {} THEN 0
    ELSE LET k == CHOOSE x \in DOMAIN g : TRUE
         IN  g[k] + MappingTotal([x \in DOMAIN g \ {k} |-> g[x]])

RECURSIVE PairsTotal(_)
PairsTotal(s) == IF s = <<>> THEN 0 ELSE Head(s)[2] + PairsTotal(Tail(s))

\* C9 (as stated): in the filtered set a missing payment method or installer
\* is the empty string, and the profit sums by payment method and by installer
\* each add up to the total profit of the set.
C9_BlankIsOwnBucket ==
    Aggregated =>
        /\ \A i \in 1..Len(df_filtered) :
              df_filtered[i].pay # NaN /\ df_filtered[i].inst # NaN
        /\ MappingTotal(profit_by_payment) = SumProfit
        /\ PairsTotal(profit_by_installer) = SumProfit

FlagTrue(ss) == "password_correct" \in DOMAIN ss /\ ss["password_correct"]

FlagFalse(ss) == "password_correct" \in DOMAIN ss /\ ~ss["password_correct"]

\* C10: in every step, the load, the filter and the tabs are reached only with
\* password_correct True; the flag turns True only when the text entered equals
\* the secret; a submission equal to the secret sets it True and removes the
\* entered password from the session state, any other submission sets it False.
C10_GateBeforeData ==
    [][/\ (pc' \in {"load", "filter", "render"} \/ ran' # {}) => FlagTrue(session_state')
       /\ (FlagTrue(session_state') /\ ~FlagTrue(session_state)) => entered' = Secret
       /\ (entered' # entered \/ session_state' # session_state) =>
             /\ entered' = Secret =>
                   FlagTrue(session_state') /\ "password" \notin DOMAIN session_state'
             /\ entered' # Secret => FlagFalse(session_state')]_vars

\* C10 witness: the load is reached after the secret was entered.
C10_Witness == pc = "load" /\ entered = Secret /\ FlagTrue(session_state)

=============================================================================
